---- MODULE Spec2Model ----
(***************************************************************************)
(* A model of whisperGUI.py: the SRT timestamp adjustment of Worker.run    *)
(* (character-level regular expression match, double-precision multiply,   *)
(* decomposition, formatting, str.replace) and the run of the worker       *)
(* thread (ffmpeg, whisper, rename, adjustment, cleanup) with the main     *)
(* window's button handlers.                                               *)
(***************************************************************************)
EXTENDS Integers, Sequences, FiniteSets, TLC

(***************************************************************************)
(* Text.  A str is a sequence of one-character strings.                    *)
(***************************************************************************)
Digits == <<"0", "1", "2", "3", "4", "5", "6", "7", "8", "9">>

IsDigit(c) == \E i \in 1..10 : Digits[i] = c

DigitVal(c) == (CHOOSE i \in 1..10 : Digits[i] = c) - 1

RECURSIVE Flatten(_)
Flatten(ss) == IF ss = <<>> THEN <<>> ELSE Head(ss) \o Flatten(Tail(ss))

\* s[i:i+n] of Python, i counted from 1; shorter when the string ends.
Slice(s, i, n) == SubSeq(s, i, IF i + n - 1 > Len(s) THEN Len(s) ELSE i + n - 1)

\* re.match of r"\d{2}:\d{2}:\d{2},\d{3}" at position i of s.
MatchAt(s, i) ==
    /\ i + 11 <= Len(s)
    /\ \A j \in {0, 1, 3, 4, 6, 7, 9, 10, 11} : IsDigit(s[i + j])
    /\ s[i + 2] = ":"
    /\ s[i + 5] = ":"
    /\ s[i + 8] = ","

\* The least element of a non-empty set of positions.
Least(S) == CHOOSE p \in S : \A q \in S : p <= q

\* re.findall: the matches from left to right, without overlap; the search
\* goes on right after the end of a match.
RECURSIVE FindAllFrom(_, _)
FindAllFrom(s, i) ==
    LET cand == {p \in i..Len(s) : MatchAt(s, p)}
    IN  IF cand = {} THEN <<>>
        ELSE <<SubSeq(s, Least(cand), Least(cand) + 11)>> \o FindAllFrom(s, Least(cand) + 12)

FindAll(s) == FindAllFrom(s, 1)

\* old occurs in s at position p.
OccursAt(s, p, old) == p + Len(old) - 1 <= Len(s) /\ SubSeq(s, p, p + Len(old) - 1) = old

\* str.replace(old, new): every occurrence of old, left to right, without
\* overlap; old is never empty here.
RECURSIVE ReplaceFrom(_, _, _, _)
ReplaceFrom(s, i, old, new) ==
    LET cand == {p \in i..Len(s) : OccursAt(s, p, old)}
    IN  IF cand = {} THEN SubSeq(s, i, Len(s))
        ELSE SubSeq(s, i, Least(cand) - 1) \o new
                 \o ReplaceFrom(s, Least(cand) + Len(old), old, new)

Replace(s, old, new) == ReplaceFrom(s, 1, old, new)

\* int() of a string of decimal digits.
RECURSIVE ParseInt(_)
ParseInt(s) ==
    IF s = <<>> THEN 0 ELSE 10 * ParseInt(SubSeq(s, 1, Len(s) - 1)) + DigitVal(s[Len(s)])

\* str() of a natural number.
RECURSIVE NatStr(_)
NatStr(n) == IF n < 10 THEN <<Digits[n + 1]>> ELSE NatStr(n \div 10) \o <<Digits[(n % 10) + 1]>>

RECURSIVE Zeros(_)
Zeros(n) == IF n <= 0 THEN <<>> ELSE <<"0">> \o Zeros(n - 1)

\* format(n, "0<w>d"): sign first, then zeros up to the width w, then digits.
FormatD(n, w) ==
    LET sign == IF n < 0 THEN <<"-">> ELSE <<>>
        digs == NatStr(IF n < 0 THEN 0 - n ELSE n)
    IN  sign \o Zeros(w - Len(sign) - Len(digs)) \o digs

(***************************************************************************)
(* Numbers.  speed_up is a Python float, an IEEE 754 double; the spin box  *)
(* of the basic tab holds it with two decimals, so it is the double that   *)
(* is nearest to k/100 for an integer k.  Bit strings stand for the        *)
(* 53-bit significands and for the exact products, which are wider than    *)
(* the integers of the model checker.                                      *)
(***************************************************************************)
MantissaBits == 53

SpinDecimals == 100

\* The numbers wider than the model checker's integers are kept in limbs of
\* LimbBits bits, least significant limb first.
LimbBits == 15

LimbBase == 2 ^ LimbBits

Reverse(s) == [i \in 1..Len(s) |-> s[Len(s) + 1 - i]]

Greatest(S) == CHOOSE p \in S : \A q \in S : p >= q

\* The value of a bit string, least significant bit first.
RECURSIVE BitsVal(_)
BitsVal(b) ==
    IF b = <<>> THEN 0
    ELSE IF Len(b) = 1 THEN b[1]
    ELSE LET h == Len(b) \div 2
         IN  BitsVal(SubSeq(b, 1, h)) + (2 ^ h) * BitsVal(SubSeq(b, h + 1, Len(b)))

\* The bit string without its leading zeros (least significant bit first).
StripHigh(b) ==
    IF \A i \in 1..Len(b) : b[i] = 0 THEN <<>>
    ELSE SubSeq(b, 1, Greatest({i \in 1..Len(b) : b[i] = 1}))

\* b + 1, least significant bit first: the carry runs up to the lowest zero.
IncBits(b) ==
    IF \A i \in 1..Len(b) : b[i] = 1 THEN [i \in 1..Len(b) |-> 0] \o <<1>>
    ELSE LET z == Least({i \in 1..Len(b) : b[i] = 0})
         IN  [i \in 1..Len(b) |-> IF i < z THEN 0 ELSE IF i = z THEN 1 ELSE b[i]]

LimbsToBits(ls) ==
    [i \in 1..(LimbBits * Len(ls)) |->
        (ls[((i - 1) \div LimbBits) + 1] \div (2 ^ ((i - 1) % LimbBits))) % 2]

BitsToLimbs(b) ==
    [j \in 1..((Len(b) + LimbBits - 1) \div LimbBits) |->
        BitsVal(SubSeq(b, LimbBits * (j - 1) + 1,
                       IF LimbBits * j < Len(b) THEN LimbBits * j ELSE Len(b)))]

\* Round a bit string (least significant first) to MantissaBits significant
\* bits, to nearest, ties to even: the kept bits and the number of bits dropped.
RoundNearestEven(b) ==
    LET L == Len(b)
        t == IF L > MantissaBits THEN L - MantissaBits ELSE 0
        kept == SubSeq(b, t + 1, L)
        roundBit == t > 0 /\ b[t] = 1
        sticky == \E i \in 1..(t - 1) : b[i] = 1
        up == roundBit /\ (sticky \/ kept[1] = 1)
        k2 == IF up THEN IncBits(kept) ELSE kept
    IN  IF Len(k2) > MantissaBits
        THEN [bits |-> SubSeq(k2, 2, Len(k2)), dropped |-> t + 1]
        ELSE [bits |-> k2, dropped |-> t]

\* Long division r/den below the binary point: n limbs of the quotient, most
\* significant first, and the remainder that is left.
RECURSIVE FracLimbs(_, _, _)
FracLimbs(r, den, n) ==
    IF n = 0 THEN [limbs |-> <<>>, rem |-> r]
    ELSE LET rest == FracLimbs((r * LimbBase) % den, den, n - 1)
         IN  [limbs |-> <<(r * LimbBase) \div den>> \o rest.limbs, rem |-> rest.rem]

FracLimbCount == 6

\* The double nearest to num/den (0 < num, 0 < den < LimbBase, num \div den
\* < LimbBase): value = BitsVal(bits) / 2^scale.  The quotient is taken to
\* FracLimbCount limbs below the point, with a last bit that says whether a
\* remainder is left, and then rounded.
ToDouble(num, den) ==
    LET f == FracLimbs(num % den, den, FracLimbCount)
        fracBits == Reverse(LimbsToBits(Reverse(f.limbs)))
        all == <<IF f.rem > 0 THEN 1 ELSE 0>> \o Reverse(fracBits) \o LimbsToBits(<<num \div den>>)
        r == RoundNearestEven(StripHigh(all))
    IN  [bits |-> r.bits, scale |-> (1 + Len(fracBits)) - r.dropped]

\* ls * d + carry for a limb d.
RECURSIVE MulSmall(_, _, _)
MulSmall(ls, d, carry) ==
    IF ls = <<>> THEN <<carry>>
    ELSE LET t == Head(ls) * d + carry
         IN  <<t % LimbBase>> \o MulSmall(Tail(ls), d, t \div LimbBase)

RECURSIVE AddLimbs(_, _, _)
AddLimbs(a, b, carry) ==
    IF a = <<>> /\ b = <<>> THEN <<carry>>
    ELSE LET x == IF a = <<>> THEN 0 ELSE Head(a)
             y == IF b = <<>> THEN 0 ELSE Head(b)
             t == x + y + carry
         IN  <<t % LimbBase>> \o AddLimbs(IF a = <<>> THEN a ELSE Tail(a),
                                           IF b = <<>> THEN b ELSE Tail(b), t \div LimbBase)

\* The exact product of a natural number m < LimbBase^2 and a limb string.
MulNat(m, ls) ==
    AddLimbs(MulSmall(ls, m % LimbBase, 0), <<0>> \o MulSmall(ls, m \div LimbBase, 0), 0)

\* int(m * d) for a natural number m and a positive double d: m is exact as
\* a double, the product is rounded to nearest even, int() drops the fraction.
IntOfProduct(m, d) ==
    LET p == RoundNearestEven(StripHigh(LimbsToBits(MulNat(m, BitsToLimbs(d.bits)))))
        sh == d.scale - p.dropped
    IN  IF sh >= 0 THEN BitsVal(SubSeq(p.bits, sh + 1, Len(p.bits)))
        ELSE BitsVal(p.bits) * (2 ^ (0 - sh))

\* int(total_ms * speed_up), speed_up the double nearest to k/SpinDecimals.
ScaleMs(total_ms, k) ==
    IF k = 0 THEN 0
    ELSE IF k > 0 THEN IntOfProduct(total_ms, ToDouble(k, SpinDecimals))
    ELSE 0 - IntOfProduct(total_ms, ToDouble(0 - k, SpinDecimals))

(***************************************************************************)
(* The SRT timestamp adjustment of Worker.run, one timecode at a time.     *)
(***************************************************************************)
\* str.split(sep) for a one-character separator.
RECURSIVE Split(_, _)
Split(s, sep) ==
    IF \A i \in 1..Len(s) : s[i] # sep THEN <<s>>
    ELSE LET i == CHOOSE j \in 1..Len(s) : s[j] = sep /\ \A h \in 1..(j - 1) : s[h] # sep
         IN  <<SubSeq(s, 1, i - 1)>> \o Split(SubSeq(s, i + 1, Len(s)), sep)

\* total_ms with the hours counted as minutes.
TotalMsHoursAsMinutes(match) ==
    LET parts == Split(match, ":")
        secms == Split(parts[3], ",")
    IN  (ParseInt(parts[1]) * 60 + ParseInt(parts[2]) * 60 + ParseInt(secms[1])) * 1000
            + ParseInt(secms[2])

\* total_ms of a matched timecode (hours, minutes, seconds, milliseconds).
TotalMs(match) ==
    LET parts == Split(match, ":")
        hours == ParseInt(parts[1])
        minutes == ParseInt(parts[2])
        secms == Split(parts[3], ",")
        seconds == ParseInt(secms[1])
        milliseconds == ParseInt(secms[2])
    IN  (hours * 3600 + minutes * 60 + seconds) * 1000 + milliseconds

\* new_time with the minutes not reduced modulo the hour.
NewTimeMinutesNotReduced(nt) ==
    FormatD(nt \div 3600000, 2) \o <<":">> \o FormatD(nt \div 60000, 2) \o <<":">>
        \o FormatD(((nt % 3600000) % 60000) \div 1000, 2) \o <<",">>
        \o FormatD(((nt % 3600000) % 60000) % 1000, 3)

\* new_time of a new_total.
NewTime(new_total) ==
    LET new_hours == FormatD(new_total \div 3600000, 2)
        new_minutes == FormatD((new_total % 3600000) \div 60000, 2)
        new_seconds == FormatD(((new_total % 3600000) % 60000) \div 1000, 2)
        new_ms == FormatD(((new_total % 3600000) % 60000) % 1000, 3)
    IN  new_hours \o <<":">> \o new_minutes \o <<":">> \o new_seconds \o <<",">> \o new_ms

\* One pass of the loop body: content.replace(match, new_time).
ReplaceMatch(text, match, k) == Replace(text, match, NewTime(ScaleMs(TotalMs(match), k)))

RECURSIVE AdjustLoop(_, _, _)
AdjustLoop(text, ms, k) ==
    IF ms = <<>> THEN text ELSE AdjustLoop(ReplaceMatch(text, Head(ms), k), Tail(ms), k)

\* The content written back for the content read, speed_up = k/SpinDecimals.
AdjustContent(text, k) == AdjustLoop(text, FindAll(text), k)

(***************************************************************************)
(* The adjustment as a state machine: content is read, re.findall gives    *)
(* the matches, the loop replaces one match per pass.                      *)
(***************************************************************************)
VARIABLES
    speed_up,    \* the factor in units of 1/SpinDecimals (speed_up = 1.5 is 150)
    orig,        \* the content as it was read from the SRT file
    content,     \* the local variable content
    matches,     \* the matches the loop has still to process
    new_total,   \* new_total of the last pass of the loop
    new_time,    \* new_time of the last pass of the loop
    rpc          \* "read", "loop" or "done"

rvars == <<orig, content, matches, new_total, new_time, rpc>>

\* The state of the run of the worker thread and of the main window.
VARIABLES
    button,      \* the handler connected to run_button.clicked: "run" or "cancel"
    runs,        \* how many workers run_process has started
    output_srt,  \* settings["basic"]["output_srt"] of the worker
    is_running,  \* Worker.is_running
    wpc,         \* where the worker thread is in Worker.run
    ffmpeg,      \* the process proc
    whisper,     \* the process proc2
    wav,         \* wav_file exists
    wav_srt,     \* the file orig_srt, <wav_file>.srt
    srt,         \* the file desired_srt = srt_file, <base_name>.srt
    atempo,      \* the -af atempo filter of ffmpeg_cmd: "none" or "atempo"
    srt_io,      \* how often this run has opened srt_file for the adjustment
    log,         \* the lines given to log_signal by this worker
    finished,    \* finished_signal emitted and not yet handled
    window_log,  \* the lines MainWindow itself has appended to log_output since clear()
    wav_is_audio, \* wav_file is the path of audio_file: the input has the extension .wav
    audio        \* audio_file, the input the user selected, exists

wvars == <<button, runs, output_srt, is_running, wpc, ffmpeg, whisper, wav, wav_srt, srt,
           atempo, srt_io, log, finished, window_log, wav_is_audio, audio>>

vars == <<speed_up, rvars, wvars>>


\* Pieces of subtitle text the documents of the model are made of.
TcA == <<"0", "0", ":", "0", "0", ":", "0", "1", ",", "0", "0", "0">>

TcB == <<"0", "0", ":", "0", "0", ":", "0", "2", ",", "0", "0", "0">>

TcC == <<"0", "0", ":", "0", "0", ":", "0", "0", ",", "0", "9", "0">>

TcD == <<"0", "0", ":", "9", "9", ":", "0", "0", ",", "0", "0", "0">>

TcE == <<"9", "9", ":", "5", "9", ":", "5", "9", ",", "9", "9", "9">>

TcF == <<"0", "0", ":", "0", "0", ":", "0", "1", ",", "1", "9", "9">>

Arrow == <<" ", "-", "-", ">", " ">>

Partial == <<"0", "0", ":", "0", "0", ":", "0", "1", ",">>

Caption == <<"\n", "1", "\n">>

Tokens == {TcA, TcB, TcC, TcD, TcE, TcF, Arrow, Partial, Caption}

MaxTokens == 3

RECURSIVE TokenSeqs(_)
TokenSeqs(n) ==
    IF n = 0 THEN {<<>>}
    ELSE TokenSeqs(n - 1) \cup {Append(ts, t) : ts \in {x \in TokenSeqs(n - 1) : Len(x) = n - 1}, t \in Tokens}

Documents == {Flatten(ts) : ts \in TokenSeqs(MaxTokens)}

\* 0.7, 1.0, 1.5 and 2.0
RescaleFactors == {70, 100, 150, 200}

NoFile == [exists |-> FALSE, text |-> <<>>, by |-> 0, scaled |-> 0, adj |-> 0]

NoProcess == [st |-> "none", pipe |-> 0, left |-> 0]

\* No worker has been started.
RunIdle ==
    /\ button = "run"
    /\ runs = 0
    /\ output_srt = FALSE
    /\ is_running = TRUE
    /\ wpc = "idle"
    /\ ffmpeg = NoProcess
    /\ whisper = NoProcess
    /\ wav = FALSE
    /\ wav_srt = NoFile
    /\ srt = NoFile
    /\ atempo = "none"
    /\ srt_io = 0
    /\ log = <<>>
    /\ finished = FALSE
    /\ window_log = <<>>
    /\ wav_is_audio = FALSE
    /\ audio = TRUE

InitRescale ==
    /\ speed_up \in RescaleFactors
    /\ orig \in Documents
    /\ content = orig
    /\ matches = <<>>
    /\ new_total = 0
    /\ new_time = <<>>
    /\ rpc = "read"
    /\ RunIdle

\* matches = re.findall(...)
FindMatches ==
    /\ rpc = "read"
    /\ matches' = FindAll(content)
    /\ rpc' = IF FindAll(content) = <<>> THEN "done" ELSE "loop"
    /\ UNCHANGED <<speed_up, orig, content, new_total, new_time, wvars>>

\* one pass of "for match in matches"
ReplaceNext ==
    /\ rpc = "loop"
    /\ new_total' = ScaleMs(TotalMs(Head(matches)), speed_up)
    /\ new_time' = NewTime(new_total')
    /\ content' = Replace(content, Head(matches), new_time')
    /\ matches' = Tail(matches)
    /\ rpc' = IF Tail(matches) = <<>> THEN "done" ELSE "loop"
    /\ UNCHANGED <<speed_up, orig, wvars>>

NextRescale == FindMatches \/ ReplaceNext

SpecRescale == InitRescale /\ [][NextRescale]_vars

(***************************************************************************)
(* The run of the worker thread and the button of the main window.         *)
(***************************************************************************)
MaxRuns == 2

MaxLines == 1

\* -1.0, 0.0, 1.0 and 2.0: Worker takes whatever settings it is given
RunFactors == {0 - 100, 0, 100, 200}

\* What whisper writes for the audio of the model.
WhisperText == TcC \o Arrow \o TcA

\* speed_up >= 1.0 in place of speed_up != 1.0
SpeedUpAtLeastOne(k) == k >= SpinDecimals

\* speed_up != 1.0
SpeedUpApplied(k) == k # SpinDecimals

\* The process has not ended.
Alive(p) == p.st \in {"running", "closed", "terminated"}

\* Popen: a process that is going to print at most n lines.
Started(n) == [st |-> "running", pipe |-> 0, left |-> n]

\* proc.wait() left out: the worker goes on at once.
WaitLeftOut(p) == TRUE

\* proc.wait() returns.
WaitReturns(p) == p.st = "exited"

\* if not self.is_running: left out, a cancellation is never seen.
CancelledNeverSeen == FALSE

\* if not self.is_running
Cancelled == ~is_running

\* readline returns a line.
LineReady(p) == p.pipe > 0

\* readline returns b"": nothing buffered and the write end is closed.
AtEof(p) == p.pipe = 0 /\ p.st \in {"closed", "exited"}

InitRun ==
    /\ speed_up = SpinDecimals
    /\ orig = <<>>
    /\ content = <<>>
    /\ matches = <<>>
    /\ new_total = 0
    /\ new_time = <<>>
    /\ rpc = "idle"
    /\ RunIdle

Emit(line) == log' = Append(log, line)

\* run_process without the reconnection of the button: it stays on run_process.
RunProcessKeepsHandler ==
    /\ button = "run"
    /\ runs < MaxRuns
    /\ button' = "run"
    /\ runs' = runs + 1
    /\ speed_up' \in RunFactors
    /\ output_srt' \in BOOLEAN
    /\ is_running' = TRUE
    /\ wpc' = "start"
    /\ ffmpeg' = NoProcess
    /\ whisper' = NoProcess
    /\ atempo' = "none"
    /\ srt_io' = 0
    /\ log' = <<>>
    /\ window_log' = <<>>
    /\ wav_is_audio' \in BOOLEAN
    /\ audio' = TRUE
    /\ wav' = (wav_is_audio' \/ wav)
    /\ UNCHANGED <<wav_srt, srt, finished, rvars>>

\* MainWindow.run_process: the button becomes Cancel, a new Worker is started.
RunProcess ==
    /\ button = "run"
    /\ runs < MaxRuns
    /\ button' = "cancel"
    /\ runs' = runs + 1
    /\ speed_up' \in RunFactors
    /\ output_srt' \in BOOLEAN
    /\ is_running' = TRUE
    /\ wpc' = "start"
    /\ ffmpeg' = NoProcess
    /\ whisper' = NoProcess
    /\ atempo' = "none"
    /\ srt_io' = 0
    /\ log' = <<>>
    /\ window_log' = <<>>
    /\ wav_is_audio' \in BOOLEAN
    /\ audio' = TRUE
    /\ wav' = (wav_is_audio' \/ wav)
    /\ UNCHANGED <<wav_srt, srt, finished, rvars>>

\* MainWindow.cancel_process: self.worker.cancel()
CancelProcess ==
    /\ button = "cancel"
    /\ is_running' = FALSE
    /\ UNCHANGED <<speed_up, button, runs, output_srt, wpc, ffmpeg, whisper, wav, wav_srt, srt,
                   atempo, srt_io, log, finished, rvars, window_log, wav_is_audio, audio>>

\* MainWindow.process_finished, the slot of finished_signal.
ProcessFinished ==
    /\ finished
    /\ finished' = FALSE
    /\ window_log' = Append(window_log, "Process finished.")
    /\ button' = "run"
    /\ UNCHANGED <<speed_up, runs, output_srt, is_running, wpc, ffmpeg, whisper, wav, wav_srt,
                   srt, atempo, srt_io, log, rvars, wav_is_audio, audio>>

\* Worker.run up to the first Popen: the ffmpeg command, with the atempo
\* filter when a speed-up is applied, and the ffmpeg process.
StartFfmpeg ==
    /\ wpc = "start"
    /\ atempo' = IF SpeedUpApplied(speed_up) THEN "atempo" ELSE "none"
    /\ \E n \in 0..MaxLines : ffmpeg' = Started(n)
    /\ log' = log \o <<"Running ffmpeg conversion...", "ffmpeg_cmd">>
    /\ wpc' = "ffmpeg_read"
    /\ UNCHANGED <<speed_up, button, runs, output_srt, is_running, whisper, wav, wav_srt, srt,
                   srt_io, finished, rvars, window_log, wav_is_audio, audio>>

\* One pass of the loop over the output of ffmpeg: cancelled, or the line is logged.
ReadFfmpegLine ==
    /\ wpc = "ffmpeg_read"
    /\ LineReady(ffmpeg)
    /\ IF Cancelled
       THEN /\ ffmpeg' = [ffmpeg EXCEPT !.pipe = @ - 1,
                                         !.st = IF Alive(ffmpeg) THEN "terminated" ELSE @]
            /\ Emit("FFmpeg process cancelled.")
            /\ wpc' = "returned"
       ELSE /\ ffmpeg' = [ffmpeg EXCEPT !.pipe = @ - 1]
            /\ Emit("line")
            /\ wpc' = "ffmpeg_read"
    /\ UNCHANGED <<speed_up, button, runs, output_srt, is_running, whisper, wav, wav_srt, srt,
                   atempo, srt_io, finished, rvars, window_log, wav_is_audio, audio>>

\* readline gives b"": the loop over the output of ffmpeg ends.
FfmpegEof ==
    /\ wpc = "ffmpeg_read"
    /\ AtEof(ffmpeg)
    /\ wpc' = "ffmpeg_wait"
    /\ UNCHANGED <<speed_up, button, runs, output_srt, is_running, ffmpeg, whisper, wav, wav_srt,
                   srt, atempo, srt_io, log, finished, rvars, window_log, wav_is_audio, audio>>

\* proc.wait()
WaitFfmpeg ==
    /\ wpc = "ffmpeg_wait"
    /\ WaitReturns(ffmpeg)
    /\ wpc' = "whisper_start"
    /\ UNCHANGED <<speed_up, button, runs, output_srt, is_running, ffmpeg, whisper, wav, wav_srt,
                   srt, atempo, srt_io, log, finished, rvars, window_log, wav_is_audio, audio>>

\* The whisper command and the whisper process.
StartWhisper ==
    /\ wpc = "whisper_start"
    /\ \E n \in 0..MaxLines : whisper' = Started(n)
    /\ log' = log \o <<"Running whisper command...", "whisper_cmd">>
    /\ wpc' = "whisper_read"
    /\ UNCHANGED <<speed_up, button, runs, output_srt, is_running, ffmpeg, wav, wav_srt, srt,
                   atempo, srt_io, finished, rvars, window_log, wav_is_audio, audio>>

\* One pass of the loop over the output of whisper.
ReadWhisperLine ==
    /\ wpc = "whisper_read"
    /\ LineReady(whisper)
    /\ IF Cancelled
       THEN /\ whisper' = [whisper EXCEPT !.pipe = @ - 1,
                                           !.st = IF Alive(whisper) THEN "terminated" ELSE @]
            /\ Emit("Whisper process cancelled.")
            /\ wpc' = "returned"
       ELSE /\ whisper' = [whisper EXCEPT !.pipe = @ - 1]
            /\ Emit("line")
            /\ wpc' = "whisper_read"
    /\ UNCHANGED <<speed_up, button, runs, output_srt, is_running, ffmpeg, wav, wav_srt, srt,
                   atempo, srt_io, finished, rvars, window_log, wav_is_audio, audio>>

WhisperEof ==
    /\ wpc = "whisper_read"
    /\ AtEof(whisper)
    /\ wpc' = "whisper_wait"
    /\ UNCHANGED <<speed_up, button, runs, output_srt, is_running, ffmpeg, whisper, wav, wav_srt,
                   srt, atempo, srt_io, log, finished, rvars, window_log, wav_is_audio, audio>>

\* proc2.wait()
WaitWhisper ==
    /\ wpc = "whisper_wait"
    /\ WaitReturns(whisper)
    /\ wpc' = "rename_txt"
    /\ UNCHANGED <<speed_up, button, runs, output_srt, is_running, ffmpeg, whisper, wav, wav_srt,
                   srt, atempo, srt_io, log, finished, rvars, window_log, wav_is_audio, audio>>

\* The TXT output is renamed when it is asked for: no SRT file is touched.
RenameTxt ==
    /\ wpc = "rename_txt"
    /\ wpc' = "rename_srt"
    /\ UNCHANGED <<speed_up, button, runs, output_srt, is_running, ffmpeg, whisper, wav, wav_srt,
                   srt, atempo, srt_io, log, finished, rvars, window_log, wav_is_audio, audio>>

\* <wav_file>.srt is renamed to <base_name>.srt when SRT is asked for or a
\* speed-up is applied.
RenameSrt ==
    /\ wpc = "rename_srt"
    /\ IF output_srt \/ SpeedUpApplied(speed_up)
       THEN IF wav_srt.exists
            THEN /\ srt' = wav_srt
                 /\ wav_srt' = NoFile
                 /\ Emit("Renamed SRT output")
            ELSE /\ Emit("SRT output file not found.")
                 /\ UNCHANGED <<srt, wav_srt>>
       ELSE UNCHANGED <<srt, wav_srt, log>>
    /\ wpc' = "rename_vtt"
    /\ UNCHANGED <<speed_up, button, runs, output_srt, is_running, ffmpeg, whisper, wav, atempo,
                   srt_io, finished, rvars, window_log, wav_is_audio, audio>>

\* The VTT output is renamed when it is asked for: no SRT file is touched.
RenameVtt ==
    /\ wpc = "rename_vtt"
    /\ wpc' = "adjust"
    /\ UNCHANGED <<speed_up, button, runs, output_srt, is_running, ffmpeg, whisper, wav, wav_srt,
                   srt, atempo, srt_io, log, finished, rvars, window_log, wav_is_audio, audio>>

\* The SRT timestamps are adjusted when a speed-up is applied: srt_file is
\* read, every match is replaced, srt_file is written.
AdjustSrt ==
    /\ wpc = "adjust"
    /\ IF SpeedUpApplied(speed_up)
       THEN IF srt.exists
            THEN /\ srt' = [srt EXCEPT !.text = AdjustContent(srt.text, speed_up),
                                       !.scaled = @ + 1, !.adj = runs]
                 /\ srt_io' = srt_io + 1
                 /\ log' = log \o <<"Adjusting SRT timestamps due to speed-up factor...",
                                    "Adjusted SRT file saved">>
            ELSE /\ log' = log \o <<"Adjusting SRT timestamps due to speed-up factor...",
                                    "No SRT file found to adjust.">>
                 /\ UNCHANGED <<srt, srt_io>>
       ELSE UNCHANGED <<srt, srt_io, log>>
    /\ wpc' = "cleanup"
    /\ UNCHANGED <<speed_up, button, runs, output_srt, is_running, ffmpeg, whisper, wav, wav_srt,
                   atempo, finished, rvars, window_log, wav_is_audio, audio>>

\* The temporary WAV file is removed.
Cleanup ==
    /\ wpc = "cleanup"
    /\ IF wav
       THEN /\ wav' = FALSE
            /\ audio' = (audio /\ ~wav_is_audio)
            /\ Emit("Temporary WAV file removed.")
       ELSE UNCHANGED <<wav, audio, log>>
    /\ wpc' = "emit_finished"
    /\ UNCHANGED <<speed_up, button, runs, output_srt, is_running, ffmpeg, whisper, wav_srt, srt,
                   atempo, srt_io, finished, rvars, window_log, wav_is_audio>>

\* The places of Worker.run where a call can raise: Popen, decode, os.rename,
\* open/read/write, os.remove.
RaisePoints == {"start", "ffmpeg_read", "whisper_start", "whisper_read", "rename_txt",
                "rename_srt", "rename_vtt", "adjust", "cleanup"}

\* except Exception as e: the error is logged, the run goes on after the try.
Raise ==
    /\ wpc \in RaisePoints
    /\ wpc \in {"ffmpeg_read"} => (LineReady(ffmpeg) /\ ~Cancelled)
    /\ wpc \in {"whisper_read"} => (LineReady(whisper) /\ ~Cancelled)
    /\ wpc = "adjust" => (SpeedUpApplied(speed_up) /\ srt.exists)
    /\ wpc = "cleanup" => wav
    /\ ffmpeg' = IF wpc = "ffmpeg_read" THEN [ffmpeg EXCEPT !.pipe = @ - 1] ELSE ffmpeg
    /\ whisper' = IF wpc = "whisper_read" THEN [whisper EXCEPT !.pipe = @ - 1] ELSE whisper
    /\ srt_io' = IF wpc = "adjust" THEN srt_io + 1 ELSE srt_io
    /\ log' = log \o (IF wpc = "start" THEN <<"Running ffmpeg conversion...", "ffmpeg_cmd">>
                      ELSE IF wpc = "whisper_start" THEN <<"Running whisper command...", "whisper_cmd">>
                      ELSE IF wpc = "adjust" THEN <<"Adjusting SRT timestamps due to speed-up factor...">>
                      ELSE <<>>) \o <<"Error">>
    /\ wpc' = "emit_finished"
    /\ UNCHANGED <<speed_up, button, runs, output_srt, is_running, wav, wav_srt, srt, atempo,
                   finished, rvars, window_log, wav_is_audio, audio>>

\* self.finished_signal.emit() left out: run ends without the signal.
EmitFinishedLeftOut ==
    /\ wpc = "emit_finished"
    /\ wpc' = "done"
    /\ UNCHANGED <<speed_up, button, runs, output_srt, is_running, ffmpeg, whisper, wav, wav_srt,
                   srt, atempo, srt_io, log, finished, rvars, window_log, wav_is_audio, audio>>

\* self.finished_signal.emit(), the last statement of Worker.run.
EmitFinished ==
    /\ wpc = "emit_finished"
    /\ finished' = TRUE
    /\ wpc' = "done"
    /\ UNCHANGED <<speed_up, button, runs, output_srt, is_running, ffmpeg, whisper, wav, wav_srt,
                   srt, atempo, srt_io, log, rvars, window_log, wav_is_audio, audio>>


(***************************************************************************)
(* The two external processes.                                             *)
(***************************************************************************)
\* SRT output is asked of whisper: --output-srt.
OutputSrtFlag == SpeedUpApplied(speed_up) \/ output_srt

FfmpegPrints ==
    /\ ffmpeg.st = "running" /\ ffmpeg.left > 0
    /\ ffmpeg' = [ffmpeg EXCEPT !.pipe = @ + 1, !.left = @ - 1]
    /\ UNCHANGED <<speed_up, button, runs, output_srt, is_running, wpc, whisper, wav, wav_srt,
                   srt, atempo, srt_io, log, finished, rvars, window_log, wav_is_audio, audio>>

FfmpegCloses ==
    /\ ffmpeg.st = "running" /\ ffmpeg.left = 0
    /\ ffmpeg' = [ffmpeg EXCEPT !.st = "closed"]
    /\ UNCHANGED <<speed_up, button, runs, output_srt, is_running, wpc, whisper, wav, wav_srt,
                   srt, atempo, srt_io, log, finished, rvars, window_log, wav_is_audio, audio>>

\* ffmpeg ends: it has written wav_file, or it has failed; the atempo filter
\* takes no factor that is zero or negative.  When wav_file is the input
\* itself the file is there before and after, whatever ffmpeg does.
FfmpegExits ==
    /\ ffmpeg.st = "closed"
    /\ ffmpeg' = [ffmpeg EXCEPT !.st = "exited"]
    /\ \/ speed_up > 0 /\ wav' = TRUE
       \/ wav' = wav
    /\ UNCHANGED <<speed_up, button, runs, output_srt, is_running, wpc, whisper, wav_srt, srt,
                   atempo, srt_io, log, finished, rvars, window_log, wav_is_audio, audio>>

\* A terminated process ends, and its output ends with it.
FfmpegDies ==
    /\ ffmpeg.st = "terminated"
    /\ ffmpeg' = [ffmpeg EXCEPT !.st = "exited", !.left = 0]
    /\ UNCHANGED <<speed_up, button, runs, output_srt, is_running, wpc, whisper, wav, wav_srt,
                   srt, atempo, srt_io, log, finished, rvars, window_log, wav_is_audio, audio>>

WhisperPrints ==
    /\ whisper.st = "running" /\ whisper.left > 0
    /\ whisper' = [whisper EXCEPT !.pipe = @ + 1, !.left = @ - 1]
    /\ UNCHANGED <<speed_up, button, runs, output_srt, is_running, wpc, ffmpeg, wav, wav_srt,
                   srt, atempo, srt_io, log, finished, rvars, window_log, wav_is_audio, audio>>

WhisperCloses ==
    /\ whisper.st = "running" /\ whisper.left = 0
    /\ whisper' = [whisper EXCEPT !.st = "closed"]
    /\ UNCHANGED <<speed_up, button, runs, output_srt, is_running, wpc, ffmpeg, wav, wav_srt,
                   srt, atempo, srt_io, log, finished, rvars, window_log, wav_is_audio, audio>>

\* whisper ends: it has written <wav_file>.srt for the WAV file when SRT
\* output was asked for, or it has failed.
WhisperExits ==
    /\ whisper.st = "closed"
    /\ whisper' = [whisper EXCEPT !.st = "exited"]
    /\ \/ /\ wav /\ OutputSrtFlag
          /\ wav_srt' = [exists |-> TRUE, text |-> WhisperText, by |-> runs, scaled |-> 0,
                         adj |-> 0]
       \/ wav_srt' = wav_srt
    /\ UNCHANGED <<speed_up, button, runs, output_srt, is_running, wpc, ffmpeg, wav, srt,
                   atempo, srt_io, log, finished, rvars, window_log, wav_is_audio, audio>>

WhisperDies ==
    /\ whisper.st = "terminated"
    /\ whisper' = [whisper EXCEPT !.st = "exited", !.left = 0]
    /\ UNCHANGED <<speed_up, button, runs, output_srt, is_running, wpc, ffmpeg, wav, wav_srt,
                   srt, atempo, srt_io, log, finished, rvars, window_log, wav_is_audio, audio>>

Next ==
    \/ RunProcess \/ CancelProcess \/ ProcessFinished
    \/ StartFfmpeg \/ ReadFfmpegLine \/ FfmpegEof \/ WaitFfmpeg
    \/ StartWhisper \/ ReadWhisperLine \/ WhisperEof \/ WaitWhisper
    \/ RenameTxt \/ RenameSrt \/ RenameVtt \/ AdjustSrt \/ Cleanup
    \/ Raise \/ EmitFinished
    \/ FfmpegPrints \/ FfmpegCloses \/ FfmpegExits \/ FfmpegDies
    \/ WhisperPrints \/ WhisperCloses \/ WhisperExits \/ WhisperDies

Spec == InitRun /\ [][Next]_vars

\* The statements of Worker.run but the adjustment: the thread goes on when
\* it can.
WorkerStep ==
    \/ StartFfmpeg \/ ReadFfmpegLine \/ FfmpegEof \/ WaitFfmpeg
    \/ StartWhisper \/ ReadWhisperLine \/ WhisperEof \/ WaitWhisper
    \/ RenameTxt \/ RenameSrt \/ RenameVtt \/ Cleanup
    \/ EmitFinished

\* WF_vars(AdjustSrt): AdjustSrt is enabled exactly when wpc = "adjust" and
\* every step that leaves "adjust" is the adjustment or its failure, so weak
\* fairness of the adjustment says that the thread does not stay there.
AdjustGoesOn == []<>(wpc # "adjust")

FfmpegStep == FfmpegPrints \/ FfmpegCloses \/ FfmpegExits \/ FfmpegDies

WhisperStep == WhisperPrints \/ WhisperCloses \/ WhisperExits \/ WhisperDies

\* The worker thread and the two processes are scheduled, and the event loop
\* of the main thread delivers a queued finished_signal; the clicks of the
\* user and the failures of calls are under no obligation to happen.
Fairness ==
    /\ WF_vars(WorkerStep)
    /\ AdjustGoesOn
    /\ WF_vars(FfmpegStep)
    /\ WF_vars(WhisperStep)
    /\ WF_vars(ProcessFinished)

SpecFair == Spec /\ Fairness


(***************************************************************************)
(* What the adjustment is required to do.                                  *)
(***************************************************************************)
\* floor(m * k / SpinDecimals) in exact arithmetic, for m >= 0 and k > 0.
ExactFloor(m, k) ==
    (m \div SpinDecimals) * k + ((m % SpinDecimals) * k) \div SpinDecimals

\* The document with the timecode at every matched position replaced by the
\* canonical timecode of floor(m * f), f = k/SpinDecimals.
RECURSIVE PositionalFrom(_, _, _)
PositionalFrom(s, i, k) ==
    LET cand == {p \in i..Len(s) : MatchAt(s, p)}
    IN  IF cand = {} THEN SubSeq(s, i, Len(s))
        ELSE SubSeq(s, i, Least(cand) - 1)
                 \o NewTime(ExactFloor(TotalMs(SubSeq(s, Least(cand), Least(cand) + 11)), k))
                 \o PositionalFrom(s, Least(cand) + 12, k)

Positional(s, k) == PositionalFrom(s, 1, k)

\* The text between the matches: one piece before each match and one after the last.
RECURSIVE SegmentsFrom(_, _)
SegmentsFrom(s, i) ==
    LET cand == {p \in i..Len(s) : MatchAt(s, p)}
    IN  IF cand = {} THEN <<SubSeq(s, i, Len(s))>>
        ELSE <<SubSeq(s, i, Least(cand) - 1)>> \o SegmentsFrom(s, Least(cand) + 12)

Segments(s) == SegmentsFrom(s, 1)

\* A timecode as the adjustment writes it: hours of two digits or more
\* (with a sign when negative), then :DD:DD,DDD.
IsTimeText(t) ==
    /\ Len(t) >= 12
    /\ LET h == Len(t) - 10
       IN  /\ \A i \in 2..h : IsDigit(t[i])
           /\ IsDigit(t[1]) \/ t[1] = "-"
           /\ t[h + 1] = ":" /\ t[h + 4] = ":" /\ t[h + 7] = ","
           /\ \A j \in {2, 3, 5, 6, 8, 9, 10} : IsDigit(t[h + j])

Unreadable == <<"?">>

\* The timecodes of out, in order, when out is the pieces segs in order with
\* one timecode between two neighbours; Unreadable when out is not of this form.
RECURSIVE OutTimesFrom(_, _, _)
OutTimesFrom(out, i, segs) ==
    IF ~OccursAt(out, i, Head(segs)) /\ Head(segs) # <<>> THEN <<Unreadable>>
    ELSE LET j == i + Len(Head(segs))
             colons == {p \in j..Len(out) : out[p] = ":"}
         IN  IF Len(segs) = 1 THEN (IF j = Len(out) + 1 THEN <<>> ELSE <<Unreadable>>)
             ELSE IF colons = {} \/ ~IsTimeText(Slice(out, j, Least(colons) + 10 - j))
                  THEN <<Unreadable>>
                  ELSE <<Slice(out, j, Least(colons) + 10 - j)>>
                           \o OutTimesFrom(out, Least(colons) + 10, Tail(segs))

OutTimes(out, segs) == OutTimesFrom(out, 1, segs)

Readable(ts) == \A i \in 1..Len(ts) : ts[i] # Unreadable

\* C1: with a factor f > 0 and a document of several distinct timecode
\* values, the adjusted document holds, at every position of a timecode of
\* value m, the canonical timecode of floor(m * f), whatever the other
\* timecodes of the document are.
C1_EachRescaledIndependently ==
    (rpc = "done" /\ speed_up > 0 /\ Cardinality({FindAll(orig)[i] : i \in 1..Len(FindAll(orig))}) >= 2)
        => content = Positional(orig, speed_up)

\* C2: with a factor f > 0 and a document that is one timecode of value m,
\* the adjusted document is a timecode of value floor(m * f).
C2_SingleTimecodeFloor ==
    (rpc = "done" /\ speed_up > 0 /\ FindAll(orig) = <<orig>>)
        => (IsTimeText(content) /\ TotalMs(content) = ExactFloor(TotalMs(orig), speed_up))

\* C3: when the same timecode string stands at several positions of the
\* document, the adjusted document holds the same timecode at all of them,
\* the one that a single rescaling of the original value gives.
C3_DuplicatesRescaledOnce ==
    (rpc = "done" /\ speed_up > 0)
        => LET ms == FindAll(orig)
               outs == OutTimes(content, Segments(orig))
           IN  \A i, j \in 1..Len(ms) :
                   (i < j /\ ms[i] = ms[j])
                       => /\ Len(outs) = Len(ms) /\ Readable(outs)
                          /\ outs[i] = outs[j]
                          /\ outs[i] = NewTime(ScaleMs(TotalMs(ms[i]), speed_up))

InRange(match) ==
    /\ ParseInt(SubSeq(match, 4, 5)) <= 59
    /\ ParseInt(SubSeq(match, 7, 8)) <= 59

AllInRange(s) == \A i \in 1..Len(FindAll(s)) : InRange(FindAll(s)[i])

C5_OnlyTimecodesChange ==
    rpc = "done"
        => /\ Readable(OutTimes(content, Segments(orig)))
           /\ FindAll(orig) = <<>> => content = orig

\* C6: with a factor f > 0, the timecode put in place of a match is the exact
\* decomposition of new_total: minutes and seconds in 0..59, milliseconds in
\* 0..999, hours = new_total div 3600000 however many digits that takes, and
\* the four fields give new_total back.
C6_ExactDecomposition ==
    (new_time # <<>> /\ speed_up > 0)
        => /\ IsTimeText(new_time)
           /\ LET parts == Split(new_time, ":")
                  secms == Split(parts[3], ",")
              IN  /\ ParseInt(parts[1]) = new_total \div 3600000
                  /\ ParseInt(parts[2]) \in 0..59
                  /\ ParseInt(secms[1]) \in 0..59
                  /\ ParseInt(secms[2]) \in 0..999
                  /\ ((ParseInt(parts[1]) * 60 + ParseInt(parts[2])) * 60 + ParseInt(secms[1])) * 1000
                         + ParseInt(secms[2]) = new_total

C6_Witness ==
    /\ speed_up = 200 /\ new_total = 719999998
    /\ new_time = <<"1", "9", "9", ":", "5", "9", ":", "5", "9", ",", "9", "9", "8">>
    /\ Len(FindAll(content)) >= 1

(***************************************************************************)
(* What the run of the worker is required to do.                           *)
(***************************************************************************)
Logged(line) == \E i \in 1..Len(log) : log[i] = line

C8_NoRescaleAtOne ==
    (wpc # "idle" /\ speed_up = SpinDecimals)
        => /\ atempo = "none"
           /\ srt_io = 0
           /\ ~Logged("Adjusting SRT timestamps due to speed-up factor...")
           /\ srt.adj # runs
           /\ (wav_srt.exists /\ wav_srt.by = runs) => wav_srt.text = WhisperText
           /\ (srt.exists /\ srt.by = runs) => (srt.text = WhisperText /\ srt.scaled = 0)

C8_Witness ==
    /\ speed_up = SpinDecimals /\ wpc = "done"
    /\ srt.exists /\ srt.by = runs /\ srt.text = WhisperText
    /\ Logged("Renamed SRT output")

\* C9: every SRT file is adjusted at most once, and by the run whose whisper
\* process wrote it.
C9_TransformedOnce ==
    srt.exists => (srt.scaled <= 1 /\ (srt.scaled = 1 => srt.adj = srt.by))

\* C10: whisper is started only when the output of ffmpeg has been read to
\* its end and ffmpeg has been waited for, so the two processes of a run are
\* never alive together; the renaming, the adjustment and the removal of the
\* WAV file come only when whisper has been waited for.
C10_ToolsInSequence ==
    /\ whisper.st # "none" => (ffmpeg.st = "exited" /\ ffmpeg.pipe = 0)
    /\ ~(Alive(ffmpeg) /\ Alive(whisper))
    /\ wpc \in {"rename_txt", "rename_srt", "rename_vtt", "adjust", "cleanup"}
           => (whisper.st = "exited" /\ whisper.pipe = 0)

C10_Witness ==
    /\ wpc = "cleanup" /\ ffmpeg.st = "exited" /\ whisper.st = "exited"
    /\ Logged("line") /\ Logged("Renamed SRT output")

\* C11: when the worker reads a line of ffmpeg or of whisper after cancel()
\* has set is_running to False, it terminates that process, logs the matching
\* "... process cancelled." line and returns; a run that has returned takes no
\* later step: no whisper is started, nothing is logged, no SRT file is
\* renamed or adjusted, the WAV file is not removed.
C11_CancelTerminatesAndStops ==
    [][/\ (wpc = "ffmpeg_read" /\ ~is_running /\ ffmpeg'.pipe < ffmpeg.pipe)
            => /\ ffmpeg'.st \in {"terminated", "exited"}
               /\ log' = Append(log, "FFmpeg process cancelled.")
               /\ wpc' = "returned"
       /\ (wpc = "whisper_read" /\ ~is_running /\ whisper'.pipe < whisper.pipe)
            => /\ whisper'.st \in {"terminated", "exited"}
               /\ log' = Append(log, "Whisper process cancelled.")
               /\ wpc' = "returned"
       /\ wpc = "returned"
            => /\ wpc' = "returned"
               /\ log' = log
               /\ whisper.st = "none" => whisper'.st = "none"
               /\ srt' = srt /\ wav_srt' = wav_srt /\ srt_io' = srt_io
               /\ wav => wav'
               /\ finished' = finished]_vars

C11_Witness ==
    /\ wpc = "returned" /\ Logged("FFmpeg process cancelled.")
    /\ ffmpeg.st = "exited" /\ whisper.st = "none"

\* How often the line occurs among the lines the worker has logged.
Occurrences(line) == Cardinality({i \in 1..Len(log) : log[i] = line})

\* C12: an exception raised in Worker.run is logged as one "Error: ..."
\* line and does not leave the thread: the run goes on to emit
\* finished_signal, once, so that "Process finished." is logged once by the
\* main window and the button returns to Run.
C12_ErrorThenFinished ==
    /\ [](Occurrences("Error") <= 1)
    /\ [](Logged("Error") => (wpc \in {"emit_finished", "done"} /\ log[Len(log)] = "Error"))
    /\ [](Len(window_log) <= 1 /\ (finished => window_log = <<>>))
    /\ [][(finished' /\ ~finished) => (wpc = "emit_finished" /\ wpc' = "done")]_vars
    /\ Logged("Error") ~> (button = "run" /\ window_log = <<"Process finished.">>)

C12_Witness ==
    /\ Logged("Error") /\ wpc = "done" /\ ~finished
    /\ button = "run" /\ window_log = <<"Process finished.">>

\* C13: a run in which the worker has seen the cancellation (it has logged
\* "... process cancelled." and returned) leads to the button being Run
\* again, its click connected to run_process: finished_signal is emitted and
\* process_finished runs.
C13_CancelledRunFinishes ==
    (wpc = "returned") ~> (button = "run" /\ window_log = <<"Process finished.">>)

\* C14: the input file the user selected exists at every moment of every
\* run: wav_file, which ffmpeg writes and the cleanup removes, is never the
\* path of the input, also for an input with the extension .wav.
C14_InputNeverRemoved ==
    wpc # "idle" => audio

\* C15: a worker on which cancel() has been called starts no process: when
\* whisper is started, is_running is still True.
C15_NoLaunchAfterCancel ==
    [][(whisper.st = "none" /\ whisper'.st # "none") => is_running]_vars

\* The run of a worker is in progress: it has been started and has not come
\* to the end of Worker.run, or its finished_signal is still to be handled.
InProgress == wpc \notin {"idle", "done"} \/ finished

\* C16: the click of the button is connected to run_process only when no run
\* is in progress and to cancel_process from the start of a run until its
\* finished_signal is handled, so run_process starts a worker only when the
\* one before has ended.
C16_OneWorkerAtATime ==
    /\ [](button = "run" <=> ~InProgress)
    /\ [][runs' # runs => (~InProgress /\ button' = "cancel")]_vars
    /\ [][(button = "cancel" /\ button' = "run") => (finished /\ ~finished' /\ wpc = "done")]_vars

C16_Witness ==
    /\ runs = 2 /\ wpc = "whisper_read" /\ button = "cancel" /\ is_running

====
